---- MODULE Spec2Model ----
(***************************************************************************)
(* Model of src/src/meteora_probe.ts: the round-trip cost probe for a      *)
(* Meteora DLMM pool.  The script is one sequential async function; the    *)
(* model follows it step by step (one action per awaited call or loop      *)
(* step), and models its helpers (parseSizes, toAtomicBN, asBN,            *)
(* fromAtomicToNumber, fetchSolUsd) as operators computed the way the      *)
(* code computes them, on character sequences and exact numbers.           *)
(***************************************************************************)
EXTENDS Integers, Sequences, FiniteSets, TLC

(***************************************************************************)
(* JavaScript numbers.  A number is a fraction [n, d] in lowest terms with *)
(* d >= 0: d > 0 is a finite value, 1/0 is Infinity, -1/0 is -Infinity and *)
(* 0/0 is NaN.  Finite arithmetic is exact (no binary rounding); the       *)
(* non-finite values follow IEEE 754 as JavaScript does (no signed zero).  *)
(***************************************************************************)
Abs(i) == IF i < 0 THEN -i ELSE i

Sign(i) == IF i < 0 THEN -1 ELSE IF i > 0 THEN 1 ELSE 0

RECURSIVE Gcd(_, _)
Gcd(a, b) == IF b = 0 THEN a ELSE Gcd(b, a % b)

Num(n, d) ==
    IF d = 0 THEN [n |-> Sign(n), d |-> 0]
    ELSE LET g == Gcd(Abs(n), Abs(d))
         IN  [n |-> Sign(d) * (n \div g), d |-> Abs(d) \div g]

IntNum(i) == [n |-> i, d |-> 1]

NaN == [n |-> 0, d |-> 0]

Infinity == [n |-> 1, d |-> 0]

isNaN(x) == x.d = 0 /\ x.n = 0

isFinite(x) == x.d > 0

Neg(x) == [n |-> -x.n, d |-> x.d]

Add(x, y) ==
    IF isNaN(x) \/ isNaN(y) THEN NaN
    ELSE IF x.d = 0 /\ y.d = 0 THEN (IF x.n = y.n THEN x ELSE NaN)
    ELSE Num(x.n * y.d + y.n * x.d, x.d * y.d)

Sub(x, y) == Add(x, Neg(y))

Mul(x, y) ==
    IF isNaN(x) \/ isNaN(y) THEN NaN ELSE Num(x.n * y.n, x.d * y.d)

Div(x, y) ==
    IF isNaN(x) \/ isNaN(y) THEN NaN ELSE Num(x.n * y.d, x.d * y.n)

\* x === y on numbers: NaN equals nothing, itself included.
Eq(x, y) == ~isNaN(x) /\ ~isNaN(y) /\ x = y

Lt(x, y) ==
    IF isNaN(x) \/ isNaN(y) THEN FALSE
    ELSE IF x.d = 0 /\ y.d = 0 THEN x.n < y.n
    ELSE x.n * y.d < y.n * x.d

Le(x, y) == Lt(x, y) \/ Eq(x, y)

RECURSIVE Pow10(_)
Pow10(k) == IF k = 0 THEN 1 ELSE 10 * Pow10(k - 1)

(***************************************************************************)
(* JavaScript strings are sequences of one-character strings.              *)
(***************************************************************************)
Digits == <<"0", "1", "2", "3", "4", "5", "6", "7", "8", "9">>

IsDigit(c) == \E i \in 1..10 : Digits[i] = c

DigitVal(c) == (CHOOSE i \in 1..10 : Digits[i] = c) - 1

AllDigits(s) == \A i \in 1..Len(s) : IsDigit(s[i])

\* The value of a digit string read in base 10 (0 for the empty string).
RECURSIVE DigitsVal(_)
DigitsVal(s) ==
    IF s = <<>> THEN 0
    ELSE 10 * DigitsVal(SubSeq(s, 1, Len(s) - 1)) + DigitVal(s[Len(s)])

\* The decimal digits of a natural number, without leading zeros ("0" for 0).
RECURSIVE NatStr(_)
NatStr(k) ==
    IF k < 10 THEN <<Digits[k + 1]>>
    ELSE Append(NatStr(k \div 10), Digits[(k % 10) + 1])

Includes(s, c) == \E i \in 1..Len(s) : s[i] = c

IndexOf(s, c) == CHOOSE i \in 1..Len(s) : s[i] = c /\ \A j \in 1..(i - 1) : s[j] # c

\* String.prototype.split with a one-character separator.
RECURSIVE Split(_, _)
Split(s, c) ==
    IF ~Includes(s, c) THEN <<s>>
    ELSE LET i == IndexOf(s, c)
         IN  <<SubSeq(s, 1, i - 1)>> \o Split(SubSeq(s, i + 1, Len(s)), c)

\* String.prototype.trim (the only white space of the model is the blank).
RECURSIVE Trim(_)
Trim(s) ==
    IF s = <<>> THEN s
    ELSE IF s[1] = " " THEN Trim(Tail(s))
    ELSE IF s[Len(s)] = " " THEN Trim(SubSeq(s, 1, Len(s) - 1))
    ELSE s

\* String.prototype.replace(".", ""): the first "." is removed.
ReplaceDot(s) ==
    IF ~Includes(s, ".") THEN s
    ELSE LET i == IndexOf(s, ".")
         IN  SubSeq(s, 1, i - 1) \o SubSeq(s, i + 1, Len(s))

\* String.prototype.padStart(n, "0").
RECURSIVE PadStart(_, _)
PadStart(s, n) == IF Len(s) >= n THEN s ELSE PadStart(<<"0">> \o s, n)

\* An unsigned decimal literal: digits, optionally a "." among them, and at
\* least one digit in all.
UnsignedLiteral(s) ==
    IF Includes(s, ".")
    THEN LET i == IndexOf(s, ".")
             ip == SubSeq(s, 1, i - 1)
             fp == SubSeq(s, i + 1, Len(s))
         IN  /\ AllDigits(ip)
             /\ AllDigits(fp)
             /\ Len(ip) + Len(fp) > 0
    ELSE s # <<>> /\ AllDigits(s)

UnsignedValue(s) ==
    IF Includes(s, ".")
    THEN LET i == IndexOf(s, ".")
             ip == SubSeq(s, 1, i - 1)
             fp == SubSeq(s, i + 1, Len(s))
         IN  Num(DigitsVal(ip) * Pow10(Len(fp)) + DigitsVal(fp), Pow10(Len(fp)))
    ELSE IntNum(DigitsVal(s))

\* Number(string): white space is trimmed, the empty string is 0, a signed
\* decimal literal is its value and anything else is NaN.
StringToNumber(str) ==
    LET t == Trim(str)
    IN  IF t = <<>> THEN IntNum(0)
        ELSE IF t[1] = "-" /\ UnsignedLiteral(Tail(t)) THEN Neg(UnsignedValue(Tail(t)))
        ELSE IF t[1] = "+" /\ UnsignedLiteral(Tail(t)) THEN UnsignedValue(Tail(t))
        ELSE IF UnsignedLiteral(t) THEN UnsignedValue(t)
        ELSE NaN

\* Number.prototype.toFixed(f) of a finite number: the sign is kept apart,
\* n is the integer nearest to |x| * 10^f (the larger one at a tie), its digits
\* are padded with zeros to f + 1 places and the "." goes before the last f.
toFixed(x, f) ==
    LET ax == IF x.n < 0 THEN Neg(x) ELSE x
        n  == (2 * ax.n * Pow10(f) + ax.d) \div (2 * ax.d)
        m  == PadStart(NatStr(n), f + 1)
        k  == Len(m)
        body == IF f = 0 THEN m
                ELSE SubSeq(m, 1, k - f) \o <<".">> \o SubSeq(m, k - f + 1, k)
    IN  IF x.n < 0 THEN <<"-">> \o body ELSE body

(***************************************************************************)
(* bn.js.  A BN is an integer; a call that throws yields Thrown.           *)
(***************************************************************************)
Thrown == [thrown |-> TRUE]

Ok(v) == [thrown |-> FALSE, val |-> v]

\* new BN(string): an optional "-" and base-10 digits; -0 is normalised to 0.
BNfromString(s) ==
    IF s # <<>> /\ s[1] = "-" /\ AllDigits(Tail(s)) THEN Ok(-DigitsVal(Tail(s)))
    ELSE IF AllDigits(s) THEN Ok(DigitsVal(s))
    ELSE Thrown

\* BN.prototype.toString().
BNtoString(bn) == IF bn < 0 THEN <<"-">> \o NatStr(-bn) ELSE NatStr(bn)

(***************************************************************************)
(* Values handed over by the SDK are tagged with their JavaScript type:    *)
(* a BN, a number, a string, or undefined.                                 *)
(***************************************************************************)
Undefined == [t |-> "undefined"]

BNval(i) == [t |-> "BN", v |-> i]

NumberVal(x) == [t |-> "number", v |-> x]

StringVal(s) == [t |-> "string", v |-> s]

\* Math.trunc of a finite number.
Trunc(x) == Sign(x.n) * (Abs(x.n) \div x.d)

toAtomicBN(amount, decimals) ==
    LET s == toFixed(amount, decimals)
    IN  BNfromString(ReplaceDot(s))

asBN(x) ==
    IF x.t = "BN" THEN Ok(x.v)
    ELSE IF x.t = "number" THEN (IF isFinite(x.v) THEN Ok(Trunc(x.v)) ELSE Thrown)
    ELSE IF x.t = "string" THEN BNfromString(x.v)
    ELSE Thrown

fromAtomicToNumber(x, decimals) ==
    LET bn == asBN(x)
    IN  IF bn.thrown THEN Thrown
        ELSE LET s == BNtoString(bn.val)
             IN  IF decimals = 0 THEN Ok(StringToNumber(s))
                 ELSE LET pad  == PadStart(s, decimals + 1)
                          int  == SubSeq(pad, 1, Len(pad) - decimals)
                          frac == SubSeq(pad, Len(pad) - decimals + 1, Len(pad))
                          composed == int \o <<".">> \o frac
                      IN  Ok(StringToNumber(composed))

\* RangeLoop with v < b for v <= b: the end of the range is left out.
RECURSIVE RangeLoopExclusive(_, _, _, _)
RangeLoopExclusive(v, b, s, out) ==
    IF Lt(v, b) THEN RangeLoopExclusive(Add(v, s), b, s, Append(out, v)) ELSE out

RECURSIVE RangeLoop(_, _, _, _)
RangeLoop(v, b, s, out) ==
    IF Le(v, b) THEN RangeLoop(Add(v, s), b, s, Append(out, v)) ELSE out

\* Array.prototype.filter with n => Number.isFinite(n) && n > 0.
RECURSIVE FilterPositive(_)
FilterPositive(xs) ==
    IF xs = <<>> THEN <<>>
    ELSE (IF isFinite(Head(xs)) /\ Lt(IntNum(0), Head(xs)) THEN <<Head(xs)>> ELSE <<>>)
         \o FilterPositive(Tail(xs))

\* A component a destructuring of split() leaves undefined converts to NaN.
PartNumber(parts, i) == IF i <= Len(parts) THEN StringToNumber(parts[i]) ELSE NaN

parseSizes(sizesArg) ==
    IF Includes(sizesArg, ":")
    THEN LET parts == Split(sizesArg, ":")
             a == PartNumber(parts, 1)
             b == PartNumber(parts, 2)
             s == PartNumber(parts, 3)
         IN  IF ~(isFinite(a) /\ isFinite(b) /\ isFinite(s)) \/ Le(s, IntNum(0)) \/ Lt(b, a)
             THEN Thrown
             ELSE Ok(RangeLoop(a, b, s, <<>>))
    ELSE IF Includes(sizesArg, ",")
    THEN LET parts == Split(sizesArg, ",")
             nums  == [i \in 1..Len(parts) |-> StringToNumber(Trim(parts[i]))]
         IN  Ok(FilterPositive(nums))
    ELSE LET single == StringToNumber(Trim(sizesArg))
         IN  IF isFinite(single) /\ Lt(IntNum(0), single) THEN Ok(<<single>>) ELSE Thrown

toBps(x) == Mul(x, IntNum(10000))

(***************************************************************************)
(* Constants of the script.                                                *)
(***************************************************************************)
SOL_MINT == "So11111111111111111111111111111111111111112"

USDC_MINT == "EPjFWdd5AufqSSqeM2qN1xzybapC8G4wEGGkZwyTDt1v"

\* Pinned base per-leg fees, in basis points.
PINNED_POOL_PER_LEG_BPS ==
    [p \in {"HTvjzsfX3yU6BUodCjZ5vZkUrAxMDTrBs3CJaq43ashR",
            "5rCf1DM8LjKTw4YqhnoLcngyZYeNnQqztScTogYHAS6",
            "BVRbyLjjfSBcoyiYFuxbgKYnWuiFaF9CSXEa5vdSZ9Hh",
            "BGm1tav58oGcsQJehL9WXBFXF7D27vZsKefj4xJKD5Y",
            "HbjYfcWZBjCBYTJpZkLGxqArVmZVu3mQcRudb6Wg1sVh",
            "J2Gsg3xTDjM8UZjKdEqzBeDwitHb2Ux6TSBX5RzsE42r",
            "4kdxjt8pKEW4qV4ji4HANixwswDJw3Egn8L4x2BEWQqT",
            "7ubS3GccjhQY99AYNKXjNJqnXjaokEdfdV915xnCb96r",
            "9d9mb8kooFfaD3SctgZtkxQypkshx6ezhbKio89ixyy2",
            "C8Gr6AUuq9hEdSYJzoEpNcdjpojPZwqG5MtQbeouNNwg"} |->
        CASE p = "HTvjzsfX3yU6BUodCjZ5vZkUrAxMDTrBs3CJaq43ashR" -> IntNum(1)
          [] p = "5rCf1DM8LjKTw4YqhnoLcngyZYeNnQqztScTogYHAS6"  -> IntNum(4)
          [] p = "BVRbyLjjfSBcoyiYFuxbgKYnWuiFaF9CSXEa5vdSZ9Hh" -> IntNum(20)
          [] p = "BGm1tav58oGcsQJehL9WXBFXF7D27vZsKefj4xJKD5Y"  -> IntNum(10)
          [] p = "HbjYfcWZBjCBYTJpZkLGxqArVmZVu3mQcRudb6Wg1sVh" -> IntNum(20)
          [] p = "J2Gsg3xTDjM8UZjKdEqzBeDwitHb2Ux6TSBX5RzsE42r" -> IntNum(20)
          [] p = "4kdxjt8pKEW4qV4ji4HANixwswDJw3Egn8L4x2BEWQqT" -> Num(301237, 100000)
          [] p = "7ubS3GccjhQY99AYNKXjNJqnXjaokEdfdV915xnCb96r" -> Num(4005, 1000)
          [] p = "9d9mb8kooFfaD3SctgZtkxQypkshx6ezhbKio89ixyy2" -> IntNum(10)
          [] p = "C8Gr6AUuq9hEdSYJzoEpNcdjpojPZwqG5MtQbeouNNwg" -> IntNum(15)]

\* PINNED_POOL_PER_LEG_BPS[pool] ?? 0
basePerLegBpsOf(poolAddr) ==
    IF poolAddr \in DOMAIN PINNED_POOL_PER_LEG_BPS
    THEN PINNED_POOL_PER_LEG_BPS[poolAddr] ELSE IntNum(0)

\* Number(argv.dynamicFeePct) || 0: NaN and 0 are falsy.
dynamicFeePctOf(arg) == IF isNaN(arg) \/ arg = IntNum(0) THEN IntNum(0) ELSE arg

dynPerLegBpsOf(dyn) == Mul(dyn, IntNum(100))

\* feeBpsTotalOf for one leg only: the factor 2 is forgotten.
feeBpsOneLeg(poolAddr, dyn) == Add(basePerLegBpsOf(poolAddr), dynPerLegBpsOf(dyn))

feeBpsTotalOf(poolAddr, dyn) ==
    Mul(IntNum(2), Add(basePerLegBpsOf(poolAddr), dynPerLegBpsOf(dyn)))

\* The fallback of fetchSolUsd.
SolUsdFallback == 195

\* Number(v) of a value the SDK hands over.
ToNumber(v) ==
    IF v.t = "number" THEN v.v
    ELSE IF v.t = "string" THEN StringToNumber(v.v)
    ELSE IF v.t = "BN" THEN IntNum(v.v)
    ELSE NaN

\* fetchSolUsd without the check of the price: only a rejected call falls back.
fetchSolUsdUnchecked(sdk) ==
    IF ~sdk.createOk \/ ~sdk.binOk THEN IntNum(SolUsdFallback) ELSE ToNumber(sdk.price)

\* fetchSolUsd, given what the SOL/USDC pool answers: whether DLMM.create and
\* getActiveBin return, and activeBin.pricePerToken ?? activeBin.price.  Every
\* throw inside the try block ends in the catch block's constant.
fetchSolUsd(sdk) ==
    IF ~sdk.createOk \/ ~sdk.binOk THEN IntNum(SolUsdFallback)
    ELSE LET mid == ToNumber(sdk.price)
         IN  IF ~isFinite(mid) \/ Le(mid, IntNum(0)) THEN IntNum(SolUsdFallback)
             ELSE mid

\* CsvHeader without the column fee_bps_total.
CsvHeaderMissingColumn ==
    <<"ts_utc", "dex", "pool", "program_id", "tick_spacing", "fee_ppm", "fee_bps",
      "protocol_fee_ppm",
      "liquidity_u128", "sqrt_price_x64", "tick_current",
      "mintA", "decA", "symbolA", "mintB", "decB", "symbolB",
      "base_mint", "base_decimals", "base_symbol",
      "quote_mint", "quote_decimals", "quote_symbol",
      "usd_per_quote", "mid_usd_per_base", "usd_notional",
      "buy_px_usd_per_base", "sell_px_usd_per_base",
      "roundtrip_bps", "impact_bps_total",
      "buy_out_base", "sell_in_base", "buy_fee_quote", "sell_fee_base">>

\* The header line of the CSV, as the list of its comma-separated names.
CsvHeader ==
    <<"ts_utc", "dex", "pool", "program_id", "tick_spacing", "fee_ppm", "fee_bps",
      "protocol_fee_ppm",
      "liquidity_u128", "sqrt_price_x64", "tick_current",
      "mintA", "decA", "symbolA", "mintB", "decB", "symbolB",
      "base_mint", "base_decimals", "base_symbol",
      "quote_mint", "quote_decimals", "quote_symbol",
      "usd_per_quote", "mid_usd_per_base", "usd_notional",
      "buy_px_usd_per_base", "sell_px_usd_per_base",
      "roundtrip_bps", "fee_bps_total", "impact_bps_total",
      "buy_out_base", "sell_in_base", "buy_fee_quote", "sell_fee_base">>

\* A field of a data row: the variable the code puts there, and its value.
\* Fields read from the SDK's pool object carry the opaque value "sdk".
F(name, value) == [col |-> name, val |-> value]

\* The array `line` of a data row, before join(",").
CsvRow(poolAddr, dyn, feeTotal, bDecs, qDecs, usdPerQuote, mid, usd, calc) ==
    <<F("ts_utc", "now"), F("dex", "meteora"), F("pool", poolAddr),
      F("program_id", "sdk"), F("tick_spacing", "sdk"),
      F("fee_ppm", toFixed(Mul(Add(basePerLegBpsOf(poolAddr), dynPerLegBpsOf(dyn)),
                               IntNum(10000)), 0)),
      F("fee_bps", feeTotal), F("protocol_fee_ppm", "sdk"),
      F("liquidity_u128", "sdk"), F("sqrt_price_x64", "sdk"), F("tick_current", "sdk"),
      F("mintA", "sdk"), F("decA", "sdk"), F("symbolA", "sdk"),
      F("mintB", "sdk"), F("decB", "sdk"), F("symbolB", "sdk"),
      F("base_mint", "sdk"), F("base_decimals", bDecs), F("base_symbol", "sdk"),
      F("quote_mint", "sdk"), F("quote_decimals", qDecs), F("quote_symbol", "sdk"),
      F("usd_per_quote", usdPerQuote), F("mid_usd_per_base", mid),
      F("usd_notional", usd),
      F("buy_px_usd_per_base", calc.buyPx), F("sell_px_usd_per_base", calc.sellPx),
      F("roundtrip_bps", calc.rt_bps), F("fee_bps_total_csv", feeTotal),
      F("impact_bps_total", calc.impact_bps),
      F("buy_out_base", calc.buyOutBase), F("sell_in_base", calc.sellInBase),
      F("buy_fee_quote", "sdk"), F("sell_fee_base", "sdk")>>

\* impactBps with the two legs swapped.
impactBpsSwapped(buyPx, sellPx, mid) == toBps(Div(Sub(sellPx, buyPx), mid))

\* impact_bps and rt_bps of one size.
impactBps(buyPx, sellPx, mid) == toBps(Div(Sub(buyPx, sellPx), mid))

rtBps(impact, feeTotal) == Add(impact, feeTotal)

(***************************************************************************)
(* Inputs of the model: command lines, and what the SDK may answer.        *)
(***************************************************************************)
\* Number of runs of the script on the same --csv path.
MaxRuns == 2

\* --range and --sizes as given on the command line (--range may be absent or
\* empty; --sizes has a default, so it is always a string).
ArgvChoices ==
    { [range |-> Undefined, sizes |-> <<"2", ",", "4">>],
      [range |-> StringVal(<<>>), sizes |-> <<"4", ",", "x">>],
      [range |-> StringVal(<<"0", ":", "2", ":", "2">>), sizes |-> <<"2", ",", "4">>],
      [range |-> StringVal(<<"4", ":", "2", ":", "1">>), sizes |-> <<"2">>],
      [range |-> Undefined, sizes |-> <<"x">>] }

PoolChoices == {"7ubS3GccjhQY99AYNKXjNJqnXjaokEdfdV915xnCb96r", "unlisted"}

DynamicFeeArgs == {IntNum(0), Num(1, 2), NaN}

QuoteMintChoices == {USDC_MINT, SOL_MINT, "other"}

\* Decimals of the pool's two tokens.
PoolDecimals == {0, 1}

\* activeBin.pricePerToken ?? activeBin.price of the probed pool.
PoolBinPrices == {Undefined, StringVal(<<"2">>)}

\* The same field of the SOL/USDC pool read by fetchSolUsd.
SolBinPrices ==
    {Undefined, StringVal(<<"0">>), StringVal(<<"-", "1">>), NumberVal(Infinity),
     StringVal(<<"1">>)}

\* What the SOL/USDC pool may answer to fetchSolUsd.
SolPoolAnswers ==
    {[createOk |-> FALSE, binOk |-> FALSE, price |-> Undefined],
     [createOk |-> TRUE, binOk |-> FALSE, price |-> Undefined]} \cup
    {[createOk |-> TRUE, binOk |-> TRUE, price |-> p] : p \in SolBinPrices}

\* Atomic amounts a quote may carry.
QuoteAmounts == {2, 20}

\* The amount field of a quote the SDK returns for the atomic amount asked:
\* it may be missing, and a pool moves nothing for an amount that is not
\* positive.
QuoteFields(amount) ==
    {Undefined, BNval(0)} \cup
    (IF amount > 0 THEN {BNval(k) : k \in QuoteAmounts} ELSE {})

(***************************************************************************)
(* State.                                                                  *)
(***************************************************************************)
VARIABLES
    pc,                   \* where the script is
    failure,              \* what ended an aborted run
    run,                  \* number of the current run
    file,                 \* the file at the --csv path: [exists, lines]
    sizesUSD,             \* parsed trade sizes
    csvArg,               \* whether --csv was given
    poolPk,               \* --pool
    dynamicFeePct,
    baseDecs, quoteDecs,
    adjustedMid,
    solFetch,             \* what the SOL/USDC pool answered to fetchSolUsd
    refPriceUSDperQuote,
    midUSDperBase,
    fee_bps_total,
    csvStream,            \* "undefined", "open" or "ended"
    opened, ended,        \* createWriteStream and end() calls of the run
    writes,               \* writes to the stream in the run
    idx,                  \* position of the loop in sizesUSD
    attempted,            \* sizes the loop has started on
    errors,               \* sizes logged by the catch block
    printed,              \* lines printed by the loop
    buy,                  \* result of the buy leg of the current size
    row,                  \* what the current size computed and printed
    line,                 \* the data row written for the current size
    fn                    \* argument and result of a helper applied alone

vars ==
    <<pc, failure, run, file, sizesUSD, csvArg, poolPk, dynamicFeePct, baseDecs,
      quoteDecs, adjustedMid, solFetch, refPriceUSDperQuote, midUSDperBase,
      fee_bps_total, csvStream, opened, ended, writes, idx, attempted, errors,
      printed, buy, row, line, fn>>

runVars ==
    <<sizesUSD, csvArg, poolPk, dynamicFeePct, baseDecs, quoteDecs, adjustedMid,
      solFetch, refPriceUSDperQuote, midUSDperBase, fee_bps_total, csvStream, opened,
      ended, writes, idx, attempted, errors, printed, buy, row, line>>

NoFetch == [called |-> FALSE]

NoBuy == [ok |-> FALSE]

NoRow == [ok |-> FALSE]

NoFn == [op |-> "none"]

Init ==
    /\ pc = "start"
    /\ failure = ""
    /\ sizesUSD = <<>>
    /\ csvArg = FALSE
    /\ poolPk = ""
    /\ dynamicFeePct = IntNum(0)
    /\ baseDecs = 0
    /\ quoteDecs = 0
    /\ adjustedMid = NaN
    /\ solFetch = NoFetch
    /\ refPriceUSDperQuote = NaN
    /\ midUSDperBase = NaN
    /\ fee_bps_total = NaN
    /\ csvStream = "undefined"
    /\ opened = 0
    /\ ended = 0
    /\ writes = <<>>
    /\ idx = 1
    /\ attempted = <<>>
    /\ errors = <<>>
    /\ printed = <<>>
    /\ buy = NoBuy
    /\ row = NoRow
    /\ line = <<>>
    /\ run = 1
    /\ file \in {[exists |-> FALSE, lines |-> <<>>], [exists |-> TRUE, lines |-> <<>>]}
    /\ fn = NoFn

\* An error no try block catches rejects the async main: the run is over.
Abort(what) ==
    /\ pc' = "aborted"
    /\ failure' = what

(***************************************************************************)
(* The script, one action per step.                                        *)
(***************************************************************************)
\* Lines 153-174: the command line is read and the sizes are parsed.
ParseArgs ==
    /\ pc = "start"
    /\ \E a \in ArgvChoices, p \in PoolChoices, dy \in DynamicFeeArgs, c \in BOOLEAN :
        LET useRange == a.range.t = "string" /\ a.range.v # <<>>
            parsed == IF useRange THEN parseSizes(a.range.v) ELSE parseSizes(a.sizes)
        IN  IF parsed.thrown
            THEN /\ Abort("parseSizes")
                 /\ UNCHANGED <<run, file, fn, runVars>>
            ELSE /\ pc' = "create"
                 /\ sizesUSD' = parsed.val
                 /\ poolPk' = p
                 /\ dynamicFeePct' = dynamicFeePctOf(dy)
                 /\ csvArg' = c
                 /\ UNCHANGED <<failure, run, file, fn, baseDecs, quoteDecs, adjustedMid,
                                solFetch, refPriceUSDperQuote, midUSDperBase,
                                fee_bps_total, csvStream, opened, ended, writes, idx,
                                attempted, errors, printed, buy, row, line>>

\* Lines 176-194: the pool is created and its active bin read; either call
\* may reject.
CreatePool ==
    /\ pc = "create"
    /\ \/ /\ \E what \in {"DLMM.create", "getActiveBin"} : Abort(what)
          /\ UNCHANGED <<run, file, fn, runVars>>
       \/ \E decX \in PoolDecimals, decY \in PoolDecimals, isQuoteX \in BOOLEAN,
             price \in PoolBinPrices :
            LET bD == IF isQuoteX THEN decY ELSE decX
                qD == IF isQuoteX THEN decX ELSE decY
                rawMid == IF price = Undefined THEN IntNum(0) ELSE ToNumber(price)
                decimalAdjustment ==
                    IF bD >= qD THEN IntNum(Pow10(bD - qD)) ELSE Num(1, Pow10(qD - bD))
            IN  /\ pc' = "refPrice"
                /\ baseDecs' = bD
                /\ quoteDecs' = qD
                /\ adjustedMid' = Mul(rawMid, decimalAdjustment)
                /\ UNCHANGED <<failure, run, file, fn, sizesUSD, csvArg, poolPk,
                               dynamicFeePct, solFetch, refPriceUSDperQuote,
                               midUSDperBase, fee_bps_total, csvStream, opened, ended,
                               writes, idx, attempted, errors, printed, buy, row, line>>

\* Lines 196-209: the USD price of the quote asset.
RefPrice ==
    /\ pc = "refPrice"
    /\ pc' = "binArrays"
    /\ \E quoteMint \in QuoteMintChoices :
        IF quoteMint = USDC_MINT
        THEN /\ refPriceUSDperQuote' = IntNum(1)
             /\ midUSDperBase' = adjustedMid
             /\ UNCHANGED solFetch
        ELSE IF quoteMint = SOL_MINT
        THEN \E sdk \in SolPoolAnswers :
                LET solUsd == fetchSolUsd(sdk)
                IN  /\ solFetch' = [called |-> TRUE, sdk |-> sdk, returned |-> solUsd]
                    /\ refPriceUSDperQuote' = solUsd
                    /\ midUSDperBase' = Mul(solUsd, adjustedMid)
        ELSE /\ refPriceUSDperQuote' = IntNum(1)
             /\ midUSDperBase' = adjustedMid
             /\ UNCHANGED solFetch
    /\ UNCHANGED <<failure, run, file, fn, sizesUSD, csvArg, poolPk, dynamicFeePct,
                   baseDecs, quoteDecs, adjustedMid, fee_bps_total, csvStream, opened,
                   ended, writes, idx, attempted, errors, printed, buy, row, line>>

\* Lines 211-220: the bin arrays of both directions are fetched (a call that
\* may reject) and the fee of a round trip is computed.
BinArrays ==
    /\ pc = "binArrays"
    /\ solFetch' = NoFetch
    /\ \/ /\ Abort("getBinArrayForSwap")
          /\ UNCHANGED <<run, file, fn, sizesUSD, csvArg, poolPk, dynamicFeePct,
                         baseDecs, quoteDecs, adjustedMid, refPriceUSDperQuote,
                         midUSDperBase, fee_bps_total, csvStream, opened, ended, writes,
                         idx, attempted, errors, printed, buy, row, line>>
       \/ /\ pc' = "openCsv"
          /\ fee_bps_total' = feeBpsTotalOf(poolPk, dynamicFeePct)
          /\ UNCHANGED <<failure, run, file, fn, sizesUSD, csvArg, poolPk, dynamicFeePct,
                         baseDecs, quoteDecs, adjustedMid, refPriceUSDperQuote,
                         midUSDperBase, csvStream, opened, ended, writes, idx, attempted,
                         errors, printed, buy, row, line>>

\* A write to the stream: appended to the file (the stream is opened with
\* flags "a") and noted with the state of the stream at the time.
HeaderLine == [kind |-> "header", n |-> Len(CsvHeader)]

RowLine(fields) == [kind |-> "row", n |-> Len(fields)]

Written(kind, usd) == [kind |-> kind, usd |-> usd, fee |-> fee_bps_total,
                       stream |-> csvStream]

\* needHeaderOf that looks at nothing: every run writes a header.
needHeaderAlways(f) == TRUE

\* Lines 225-226: !fs.existsSync(csvPath) || fs.statSync(csvPath).size === 0
needHeaderOf(f) == ~f.exists \/ f.lines = <<>>

\* Lines 222-257: the stream is opened when --csv is given, the header is
\* written when the file is absent or empty, and the summary is printed.
OpenCsv ==
    /\ pc = "openCsv"
    /\ pc' = "loop"
    /\ IF csvArg
       THEN LET needHeader == needHeaderOf(file)
            IN  /\ csvStream' = "open"
                /\ opened' = opened + 1
                /\ IF needHeader
                   THEN /\ file' = [exists |-> TRUE,
                                     lines |-> Append(file.lines, HeaderLine)]
                        /\ writes' = Append(writes, [kind |-> "header", usd |-> NaN,
                                                     fee |-> fee_bps_total,
                                                     stream |-> "open"])
                   ELSE /\ file' = [file EXCEPT !.exists = TRUE]
                        /\ UNCHANGED writes
       ELSE UNCHANGED <<csvStream, opened, file, writes>>
    /\ UNCHANGED <<failure, run, fn, sizesUSD, csvArg, poolPk, dynamicFeePct, baseDecs,
                   quoteDecs, adjustedMid, solFetch, refPriceUSDperQuote, midUSDperBase,
                   fee_bps_total, ended, idx, attempted, errors, printed, buy,
                   row, line>>

\* Caught that lets the error through: the size is logged and the run is over.
CaughtAborts(usd) ==
    /\ errors' = Append(errors, usd)
    /\ idx' = idx
    /\ pc' = "aborted"
    /\ buy' = NoBuy

\* Lines 360-363: the catch block logs the size and the loop goes on to the
\* next one; the constants of the iteration are gone with its block.
Caught(usd) ==
    /\ errors' = Append(errors, usd)
    /\ idx' = idx + 1
    /\ pc' = "loop"
    /\ buy' = NoBuy

\* Lines 259-265: the next size is taken and its buy leg quoted.
BuyQuote ==
    /\ pc = "loop"
    /\ idx <= Len(sizesUSD)
    /\ LET usd == sizesUSD[idx]
           quoteIn == Div(usd, refPriceUSDperQuote)
           amount == toAtomicBN(quoteIn, quoteDecs)
       IN  /\ attempted' = Append(attempted, usd)
           /\ row' = NoRow
           /\ line' = <<>>
           /\ IF amount.thrown
              THEN Caught(usd)
              ELSE \/ Caught(usd)                          \* swapQuote rejects
                   \/ \E buyOutRaw \in QuoteFields(amount.val) :
                        LET buyOutBase == fromAtomicToNumber(buyOutRaw, baseDecs)
                        IN  IF buyOutBase.thrown
                            THEN Caught(usd)
                            ELSE /\ buy' = [ok |-> TRUE,
                                            buyOutBase |-> buyOutBase.val,
                                            buyPx |-> Div(usd, buyOutBase.val)]
                                 /\ pc' = "sell"
                                 /\ UNCHANGED <<errors, idx>>
    /\ UNCHANGED <<failure, run, file, fn, sizesUSD, csvArg, poolPk, dynamicFeePct,
                   baseDecs, quoteDecs, adjustedMid, solFetch, refPriceUSDperQuote,
                   midUSDperBase, fee_bps_total, csvStream, opened, ended, writes,
                   printed>>

\* Lines 267-359: the sell leg, the arithmetic, the printed line and the row.
SellQuote ==
    /\ pc = "sell"
    /\ LET usd == sizesUSD[idx]
           quoteIn == Div(usd, refPriceUSDperQuote)
           amount == toAtomicBN(quoteIn, quoteDecs)
       IN  \/ /\ Caught(usd)                               \* swapQuoteExactOut rejects
              /\ UNCHANGED <<printed, file, writes, row, line>>
           \/ \E sellInRaw \in QuoteFields(amount.val) :
                LET sellInBase == fromAtomicToNumber(sellInRaw, baseDecs)
                IN  IF sellInBase.thrown
                    THEN /\ Caught(usd)
                         /\ UNCHANGED <<printed, file, writes, row, line>>
                    ELSE LET sellPx == Div(usd, sellInBase.val)
                             impact_bps == impactBps(buy.buyPx, sellPx, midUSDperBase)
                             rt_bps == rtBps(impact_bps, fee_bps_total)
                             calc == [ok |-> TRUE, usd |-> usd,
                                      buyPx |-> buy.buyPx, sellPx |-> sellPx,
                                      impact_bps |-> impact_bps, rt_bps |-> rt_bps,
                                      buyOutBase |-> buy.buyOutBase,
                                      sellInBase |-> sellInBase.val]
                             fields == CsvRow(poolPk, dynamicFeePct, fee_bps_total,
                                              baseDecs, quoteDecs, refPriceUSDperQuote,
                                              midUSDperBase, usd, calc)
                         IN  /\ row' = calc
                             /\ printed' = Append(printed,
                                                  [usd |-> usd, fee |-> fee_bps_total])
                             /\ IF csvStream # "undefined"
                                THEN /\ file' = [file EXCEPT
                                                    !.lines = Append(@, RowLine(fields))]
                                     /\ writes' = Append(writes, Written("row", usd))
                                     /\ line' = fields
                                ELSE UNCHANGED <<file, writes, line>>
                             /\ idx' = idx + 1
                             /\ pc' = "loop"
                             /\ buy' = NoBuy
                             /\ UNCHANGED errors
    /\ UNCHANGED <<failure, run, fn, sizesUSD, csvArg, poolPk, dynamicFeePct, baseDecs,
                   quoteDecs, adjustedMid, solFetch, refPriceUSDperQuote, midUSDperBase,
                   fee_bps_total, csvStream, opened, ended, attempted>>

\* EndStream without csvStream.end(): the run is over and the stream is left open.
EndStreamLeftOpen ==
    /\ pc = "loop"
    /\ idx > Len(sizesUSD)
    /\ pc' = "done"
    /\ row' = NoRow
    /\ line' = <<>>
    /\ UNCHANGED <<failure, run, file, fn, sizesUSD, csvArg, poolPk, dynamicFeePct,
                   baseDecs, quoteDecs, adjustedMid, solFetch, refPriceUSDperQuote,
                   midUSDperBase, fee_bps_total, csvStream, opened, ended, writes, idx,
                   attempted, errors, printed, buy>>

\* Lines 365-367: after the last size the stream is ended.
EndStream ==
    /\ pc = "loop"
    /\ idx > Len(sizesUSD)
    /\ pc' = "done"
    /\ row' = NoRow
    /\ line' = <<>>
    /\ IF csvStream # "undefined"
       THEN /\ csvStream' = "ended"
            /\ ended' = ended + 1
       ELSE UNCHANGED <<csvStream, ended>>
    /\ UNCHANGED <<failure, run, file, fn, sizesUSD, csvArg, poolPk, dynamicFeePct,
                   baseDecs, quoteDecs, adjustedMid, solFetch, refPriceUSDperQuote,
                   midUSDperBase, fee_bps_total, opened, writes, idx, attempted, errors, printed, buy>>

\* The script is run again on the same --csv path.
NextRun ==
    /\ pc \in {"done", "aborted"}
    /\ run < MaxRuns
    /\ run' = run + 1
    /\ pc' = "start"
    /\ failure' = ""
    /\ sizesUSD' = <<>>
    /\ csvArg' = FALSE
    /\ poolPk' = ""
    /\ dynamicFeePct' = IntNum(0)
    /\ baseDecs' = 0
    /\ quoteDecs' = 0
    /\ adjustedMid' = NaN
    /\ solFetch' = NoFetch
    /\ refPriceUSDperQuote' = NaN
    /\ midUSDperBase' = NaN
    /\ fee_bps_total' = NaN
    /\ csvStream' = "undefined"
    /\ opened' = 0
    /\ ended' = 0
    /\ writes' = <<>>
    /\ idx' = 1
    /\ attempted' = <<>>
    /\ errors' = <<>>
    /\ printed' = <<>>
    /\ buy' = NoBuy
    /\ row' = NoRow
    /\ line' = <<>>
    /\ UNCHANGED <<file, fn>>

Next ==
    \/ ParseArgs
    \/ CreatePool
    \/ RefPrice
    \/ BinArrays
    \/ OpenCsv
    \/ BuyQuote
    \/ SellQuote
    \/ EndStream
    \/ NextRun

Spec == Init /\ [][Next]_vars

(***************************************************************************)
(* The helpers applied alone, on inputs wider than a run of the script     *)
(* meets.  The script itself is idle in these specifications.              *)
(***************************************************************************)
Idle ==
    /\ pc = "idle"
    /\ failure = ""
    /\ run = 1
    /\ file = [exists |-> FALSE, lines |-> <<>>]
    /\ sizesUSD = <<>>
    /\ csvArg = FALSE
    /\ poolPk = ""
    /\ dynamicFeePct = IntNum(0)
    /\ baseDecs = 0
    /\ quoteDecs = 0
    /\ adjustedMid = NaN
    /\ solFetch = NoFetch
    /\ refPriceUSDperQuote = NaN
    /\ midUSDperBase = NaN
    /\ fee_bps_total = NaN
    /\ csvStream = "undefined"
    /\ opened = 0
    /\ ended = 0
    /\ writes = <<>>
    /\ idx = 1
    /\ attempted = <<>>
    /\ errors = <<>>
    /\ printed = <<>>
    /\ buy = NoBuy
    /\ row = NoRow
    /\ line = <<>>

\* Most components of a --sizes argument.
MaxParts == 3

\* Components of a --sizes argument: numbers, a zero, a negative number, a
\* word, the empty string and a number after a blank.
SizeComponents ==
    { <<"1", "0">>, <<"2", "5">>, <<"5", "0">>, <<"3", "0">>, <<"2">>, <<"0">>,
      <<"-", "1">>, <<"x">>, <<>>, <<" ", "3">> }

RECURSIVE Join(_, _)
Join(parts, sep) ==
    IF Len(parts) = 1 THEN parts[1]
    ELSE parts[1] \o <<sep>> \o Join(Tail(parts), sep)

RECURSIVE SeqsOf(_, _)
SeqsOf(S, k) ==
    IF k = 0 THEN {<<>>}
    ELSE {Append(q, x) : q \in SeqsOf(S, k - 1), x \in S}

SizeArguments ==
    UNION { {[parts |-> q, sep |-> c] : q \in SeqsOf(SizeComponents, k), c \in {":", ","}}
            : k \in 1..MaxParts }

InitParse ==
    /\ Idle
    /\ \E a \in SizeArguments :
        fn = [op |-> "parseSizes", parts |-> a.parts, sep |-> a.sep,
              arg |-> Join(a.parts, a.sep), done |-> FALSE, result |-> Thrown]

ApplyParseSizes ==
    /\ fn.op = "parseSizes"
    /\ ~fn.done
    /\ fn' = [fn EXCEPT !.done = TRUE, !.result = parseSizes(fn.arg)]
    /\ UNCHANGED <<pc, failure, run, file, runVars>>

NextParse == ApplyParseSizes

SpecParse == InitParse /\ [][NextParse]_vars

\* Amounts are the thousandths up to MaxAmount, of either sign.
MaxAmount == 1500

\* Largest number of decimals converted at.
MaxDecimals == 2

InitAtomic ==
    /\ Idle
    /\ \E n \in (-MaxAmount)..MaxAmount, d \in 0..MaxDecimals :
        fn = [op |-> "roundTrip", amount |-> Num(n, 1000), decimals |-> d,
              stage |-> "amount", atomic |-> Thrown, back |-> Thrown]

ApplyToAtomicBN ==
    /\ fn.op = "roundTrip"
    /\ fn.stage = "amount"
    /\ fn' = [fn EXCEPT !.stage = "atomic",
                        !.atomic = toAtomicBN(fn.amount, fn.decimals)]
    /\ UNCHANGED <<pc, failure, run, file, runVars>>

ApplyFromAtomicToNumber ==
    /\ fn.op = "roundTrip"
    /\ fn.stage = "atomic"
    /\ fn' = [fn EXCEPT !.stage = "back",
                        !.back = IF fn.atomic.thrown THEN Thrown
                                 ELSE fromAtomicToNumber(BNval(fn.atomic.val),
                                                         fn.decimals)]
    /\ UNCHANGED <<pc, failure, run, file, runVars>>

NextAtomic == ApplyToAtomicBN \/ ApplyFromAtomicToNumber

SpecAtomic == InitAtomic /\ [][NextAtomic]_vars

(***************************************************************************)
(* Properties.                                                             *)
(***************************************************************************)
Range(q) == {q[i] : i \in 1..Len(q)}

RowWrites == {w \in Range(writes) : w.kind = "row"}

\* C1: in the loop a failure of the buy or of the sell quote of a size is
\* caught and logged with that size, writes no row for it and never aborts
\* the run: the sizes are attempted once each, in list order, every attempted
\* size ends either in the error log or in a printed line, no run is aborted
\* once the loop has started, and a finished run has attempted the whole list.
C1_FailuresCaughtLoopCompletes ==
    /\ Len(attempted) <= Len(sizesUSD)
    /\ attempted = SubSeq(sizesUSD, 1, Len(attempted))
    /\ Len(attempted) = (IF pc = "sell" THEN idx ELSE idx - 1)
    /\ Len(errors) + Len(printed) = idx - 1
    /\ \A i \in 1..Len(errors) :
        /\ errors[i] \in Range(attempted)
        /\ \A w \in RowWrites : w.usd # errors[i]
        /\ \A j \in 1..Len(printed) : printed[j].usd # errors[i]
    /\ pc = "aborted" => attempted = <<>>
    /\ pc = "done" => attempted = sizesUSD

\* C1 witness: a finished run of two sizes whose first size failed and was
\* logged and whose second size was quoted and printed.
C1_Witness ==
    /\ pc = "done"
    /\ Len(sizesUSD) = 2
    /\ errors = <<sizesUSD[1]>>
    /\ Len(printed) = 1
    /\ printed[1].usd = sizesUSD[2]
    /\ Cardinality(RowWrites) = 1

\* C2: over any sequence of runs on the same --csv path, starting from an
\* absent or empty file, the file holds exactly one header line, which is its
\* first line (also when a run writes no row), and a run that wrote a header
\* wrote it to a file that had no line.
C2_HeaderExactlyOnce ==
    /\ csvStream # "undefined" => file.lines # <<>>
    /\ file.lines # <<>> =>
        /\ file.lines[1].kind = "header"
        /\ \A i \in 2..Len(file.lines) : file.lines[i].kind = "row"
    /\ (\E w \in Range(writes) : w.kind = "header") => Len(file.lines) = Len(writes)

\* C2 witness: a second run has appended rows, and no header, to a file in
\* which an earlier run left the header and no row.
C2_Witness ==
    /\ run = 2
    /\ csvStream = "ended"
    /\ writes # <<>>
    /\ \A w \in Range(writes) : w.kind = "row"
    /\ Len(file.lines) = 1 + Len(writes)

\* The numbers a list of components stands for, in order.
NumbersOf(parts) == [i \in 1..Len(parts) |-> StringToNumber(Trim(parts[i]))]

IsPositive(x) == isFinite(x) /\ Lt(IntNum(0), x)

\* A comma list (or a single entry) of positive numbers.
IsPositiveList(a) ==
    /\ a.sep = "," \/ Len(a.parts) = 1
    /\ \A i \in 1..Len(a.parts) : ~Includes(a.parts[i], ":")
    /\ \A i \in 1..Len(a.parts) : IsPositive(NumbersOf(a.parts)[i])

\* A range a:b:s with s > 0 and a <= b.
IsGoodRange(a) ==
    /\ a.sep = ":"
    /\ Len(a.parts) = 3
    /\ \A i \in 1..3 : isFinite(NumbersOf(a.parts)[i])
    /\ Lt(IntNum(0), NumbersOf(a.parts)[3])
    /\ Le(NumbersOf(a.parts)[1], NumbersOf(a.parts)[2])

\* An argument the claim calls unparsable: a range with b < a, with a step that
\* is not positive or with a component that is not finite, or a comma list
\* with an entry that is not a number or not positive.
IsMalformed(a) ==
    \/ /\ a.sep = ":"
       /\ Len(a.parts) >= 2
       /\ LET n == NumbersOf(a.parts)
              c(i) == IF i <= Len(a.parts) THEN n[i] ELSE NaN
          IN  \/ \E i \in 1..3 : ~isFinite(c(i))
              \/ Le(c(3), IntNum(0))
              \/ Lt(c(2), c(1))
    \/ /\ a.sep = ","
       /\ Len(a.parts) >= 2
       /\ \E i \in 1..Len(a.parts) : ~IsPositive(NumbersOf(a.parts)[i])

\* C3: parseSizes throws for every unparsable argument (a malformed range, or a
\* comma list with an entry that is not a positive number) instead of
\* returning a list.
C3_MalformedThrows ==
    (fn.op = "parseSizes" /\ fn.done /\ IsMalformed(fn)) => fn.result.thrown

AbsNum(x) == IF x.n < 0 THEN Neg(x) ELSE x

\* The amount has at most d fractional digits.
HasAtMostDigits(x, d) == (x.n * Pow10(d)) % x.d = 0

\* C5: the conversion to atomic units round-trips: for every amount and every
\* decimals count d >= 0, fromAtomicToNumber(toAtomicBN(amount, d), d) is a
\* number within 10^-d of the amount, and the amount itself when the amount has
\* at most d fractional digits.
C5_AtomicRoundTrip ==
    (fn.op = "roundTrip" /\ fn.stage = "back") =>
        /\ ~fn.atomic.thrown
        /\ ~fn.back.thrown
        /\ isFinite(fn.back.val)
        /\ Lt(AbsNum(Sub(fn.back.val, fn.amount)), Num(1, Pow10(fn.decimals)))
        /\ HasAtMostDigits(fn.amount, fn.decimals) => fn.back.val = fn.amount

\* The value the claim gives fee_bps_total: twice the pinned per-leg fee of the
\* pool (0 for a pool that is not pinned) plus twice dynamicFeePct * 100.
ExpectedFeeBps ==
    Add(Add(basePerLegBpsOf(poolPk), basePerLegBpsOf(poolPk)),
        Mul(dynamicFeePct, IntNum(200)))

\* Field of the data row `line` that the code fills from variable `name`.
Field(name) == (CHOOSE i \in 1..Len(line) : line[i].col = name)

\* C6: fee_bps_total is 2 * (pinnedFee + dynamicFeePct * 100); it is computed
\* before the loop from the pool and the option alone, and every printed line
\* and every CSV row of the run carries that same value, whatever the quotes
\* return and whichever sizes fail.
C6_FeeBpsTotalStatic ==
    /\ pc \in {"openCsv", "loop", "sell", "done"} => fee_bps_total = ExpectedFeeBps
    /\ \A i \in 1..Len(printed) : printed[i].fee = ExpectedFeeBps
    /\ \A i \in 1..Len(writes) : writes[i].fee = ExpectedFeeBps
    /\ line # <<>> =>
        /\ line[Field("fee_bps")].val = ExpectedFeeBps
        /\ line[Field("fee_bps_total_csv")].val = ExpectedFeeBps

\* C6 witness: on the pinned cbBTC/USDC pool (4.005 bps a leg) with
\* dynamicFeePct 0.5 a run has failed on one size and printed and written
\* another with fee_bps_total 108.01.
C6_Witness ==
    /\ pc = "loop"
    /\ errors # <<>>
    /\ printed # <<>>
    /\ line # <<>>
    /\ dynamicFeePct = Num(1, 2)
    /\ fee_bps_total = Num(10801, 100)

C8_StreamOpenedOnceClosedOnce ==
    /\ opened <= 1
    /\ ended <= 1
    /\ ~csvArg => opened = 0 /\ ended = 0 /\ csvStream = "undefined" /\ writes = <<>>
    /\ (csvArg /\ pc \in {"loop", "sell", "done"}) => opened = 1
    /\ pc \in {"loop", "sell"} => ended = 0 /\ (csvArg => csvStream = "open")
    /\ opened = 0 => writes = <<>>
    /\ \A i \in 1..Len(writes) : writes[i].stream = "open"
    /\ (csvArg /\ pc = "done") => ended = 1 /\ csvStream = "ended"
    /\ ended = 1 => pc = "done" /\ idx = Len(sizesUSD) + 1

\* C8 witness: a run with --csv is over, a size failed in it, a header and a
\* row were written, and the stream was opened once and ended once.
C8_Witness ==
    /\ pc = "done"
    /\ csvArg
    /\ errors # <<>>
    /\ Len(writes) >= 2
    /\ opened = 1
    /\ ended = 1

\* Column a field of a data row is written under.
ColumnOf(name) == IF name = "fee_bps_total_csv" THEN "fee_bps_total" ELSE name

\* C9 as stated: the header line has exactly 37 comma-separated names and every
\* data row has as many fields.
C9_Header37Columns ==
    \A i \in 1..Len(file.lines) : file.lines[i].n = 37

\* C9 as amended: the header line has exactly 35 comma-separated names, and
\* every data row has the same number of fields, in the order of the header.
C9_Header35Columns ==
    /\ \A i \in 1..Len(file.lines) : file.lines[i].n = 35
    /\ line # <<>> =>
        /\ Len(line) = Len(CsvHeader)
        /\ \A i \in 1..Len(line) : ColumnOf(line[i].col) = CsvHeader[i]

\* C9 witness: the file holds a header and a row, and the row was just written.
C9_Witness ==
    /\ Len(file.lines) >= 2
    /\ file.lines[1].kind = "header"
    /\ file.lines[Len(file.lines)].kind = "row"
    /\ line # <<>>

\* C10: fetchSolUsd never throws and returns a finite positive number: the
\* price of the SOL/USDC pool's active bin when the pool was created, the bin
\* fetched and the price finite and positive, and 195 in every other case; the
\* run goes on after it.
C10_SolUsdFallback ==
    solFetch.called =>
        /\ pc = "binArrays"
        /\ isFinite(solFetch.returned)
        /\ Lt(IntNum(0), solFetch.returned)
        /\ refPriceUSDperQuote = solFetch.returned
        /\ LET sdk == solFetch.sdk
               good == /\ sdk.createOk
                       /\ sdk.binOk
                       /\ sdk.price # Undefined
                       /\ isFinite(ToNumber(sdk.price))
                       /\ Lt(IntNum(0), ToNumber(sdk.price))
           IN  IF good THEN solFetch.returned = ToNumber(sdk.price)
               ELSE solFetch.returned = IntNum(195)

\* C10 witness: the SOL/USDC pool was created and its bin fetched, the price was
\* not positive, and fetchSolUsd returned 195.
C10_Witness ==
    /\ solFetch.called
    /\ solFetch.sdk.createOk
    /\ solFetch.sdk.binOk
    /\ solFetch.sdk.price = StringVal(<<"-", "1">>)
    /\ solFetch.returned = IntNum(195)

====
